---- MODULE Spec2Model ----
(***************************************************************************)
(* Model of tcam_capture/TcamView.py: the capture widget (TcamView), its   *)
(* display surfaces (TcamScreen) and the pixel inspector item (ViewItem).  *)
(*                                                                         *)
(* The module holds several specifications over one set of variables:      *)
(*   SpecPipe   the pipeline state machine: play, pause, stop,             *)
(*              create_pipeline, the bus error handler and the device-lost *)
(*              observers.                                                 *)
(*   SpecZoom   the wheel zoom of a display surface, in binary64           *)
(*              arithmetic.                                                *)
(*   SpecView   frame delivery (new_buffer, streaming thread) interleaved  *)
(*              with toggle_fullscreen (UI thread).                        *)
(*   SpecMenu   the format menu built from the device's capability list.   *)
(*   SpecNotify the handlers of the pipeline's notifications (new_buffer,  *)
(*              on_state_changed), delivered after they were emitted.      *)
(*   SpecKeys   key presses on a surface and the leaving of fullscreen.    *)
(*   SpecPointer the pointer over the item and the pixel reported with     *)
(*              every frame.                                               *)
(* Every specification leaves the variables of the others unchanged.       *)
(***************************************************************************)
EXTENDS Integers, Sequences, FiniteSets, TLC

\* ------------------------------------------------------------------ bounds
\* Longest list of registered device-lost observers.
MaxCallbacks == 3
\* Most pipelines the widget constructs in one run.
MaxPipelines == 2

\* --------------------------------------------------------------- constants
\* self.pipeline = None
None == 0
\* play(video_format=None)
NoFormat == "None"

GstStates == {"NULL", "READY", "PAUSED", "PLAYING"}
\* Gst.State.VOID_PENDING: no state change is in progress.
VoidPending == "VOID_PENDING"

\* TcamView.state before on_state_changed has assigned it: __init__ does not.
Unset == "unset"

\* The observers a client may register (zero-argument callbacks).
Callbacks == {"cb1", "cb2"}
\* Formats a menu action or a caller may hand to play().
VideoFormats == {NoFormat, "video/x-raw,format=GRAY8,width=640,height=480,framerate=30/1"}
\* msg.src.get_name() of an error message on the bus.
ErrorSources == {"tcambin-source", "bin", "sink"}
\* err.message of an error message on the bus.
ErrorMessages == {"Device lost", "device lost", "Device lost.", "Internal data stream error."}
\* The debug string of an error message (None or a text).
DebugInfos == {"None", "gstbasesrc.c(3072)"}

VARIABLES
    \* --- TcamView and its pipeline
    pipeline,               \* TcamView.pipeline: None or the handle of the current pipeline
    made,                   \* number of pipelines constructed so far (Gst.parse_launch calls)
    gst_state,              \* current state of the pipeline self.pipeline refers to
    gst_pending,            \* state an asynchronous state change is still heading to
    device_caps,            \* the "device-caps" property of the element named bin
    device_lost_callbacks,  \* TcamView.device_lost_callbacks
    state,                  \* TcamView.state: unset until on_state_changed assigns it
    inflight,               \* notifications of the pipeline emitted and not yet delivered
    handed,                 \* surface the last call emitted new_pixmap on, None if it did not
    log_records,            \* number of records the last call handed to the logger
    requests,               \* state requests (set_state) the last call issued, in order
    invoked,                \* observers the last call invoked, in order
    raised,                 \* exception the last call ended with, "none" if it returned
    callee,                 \* the last call: its name and arguments
    pre,                    \* the pipeline fields as they were when the last call began
    \* --- TcamScreen: wheel zoom
    zoom_factor,    \* TcamScreen.zoom_factor
    view_scale,     \* m11 (= m22) of the view's transform, which QGraphicsView.scale multiplies
    wheel_events,   \* number of free wheel events so far
    trip,           \* the round trip in progress: its start, its length, what is left of it
    \* --- TcamView: display surfaces, frame delivery, fullscreen
    is_fullscreen,          \* TcamView.is_fullscreen
    fullscreen_container,   \* TcamView.fullscreen_container: None or a surface
    surfaces,               \* the TcamScreen objects made so far: surfaces[1] is TcamView.container
    toggle_pc,              \* UI thread: the statement toggle_fullscreen has reached
    buffer_pc,              \* pipeline thread: the statement new_buffer has reached
    buffer_surface,         \* pipeline thread: the surface new_buffer has loaded to emit on
    frames,                 \* number of samples the sink has announced
    handovers,              \* the new_pixmap emissions so far: frame, surface, its condition
    \* --- TcamScreen: key presses
    key_event,              \* the last key press: the key, the surface, what the handler did
    filter_event,           \* the last event through TcamView.eventFilter and what the filter did
    \* --- TcamScreen and its ViewItem: the pointer
    pix,                    \* TcamScreen.pix: mouse_over, mouse_position_x/y, the pixmap's size
    pointer,                \* the last pointer handler: its name, what it emitted and read
    \* --- TcamView: the format menu
    format_menu,            \* TcamView.format_menu: None, or the QMenu and its entries
    formats,                \* the capability list the device's source pad reports, once known
    menu_call               \* the last menu call: its name, its warnings, what it raised

pipeVars == <<pipeline, made, gst_state, gst_pending, device_caps, device_lost_callbacks,
              state, inflight, handed, log_records, requests, invoked, raised, callee, pre>>
zoomVars == <<zoom_factor, view_scale, wheel_events, trip>>
viewVars == <<is_fullscreen, fullscreen_container, surfaces, toggle_pc, buffer_pc,
              buffer_surface, frames, handovers>>
menuVars == <<format_menu, formats, menu_call>>
keyVars == <<key_event, filter_event>>
pointerVars == <<pix, pointer>>
vars == <<pipeVars, zoomVars, viewVars, menuVars, keyVars, pointerVars>>

\* What the actions of one part leave alone: the variables of the other parts.
PipeOnly == UNCHANGED <<zoomVars, viewVars, menuVars, keyVars, pointerVars>>
ZoomOnly == UNCHANGED <<pipeVars, viewVars, menuVars, keyVars, pointerVars>>
ViewOnly == UNCHANGED <<pipeVars, zoomVars, menuVars, keyVars, pointerVars>>
MenuOnly == UNCHANGED <<pipeVars, zoomVars, viewVars, keyVars, pointerVars>>
KeyOnly == UNCHANGED <<pipeVars, zoomVars, menuVars, pointerVars>>
PointerOnly == UNCHANGED <<pipeVars, zoomVars, viewVars, menuVars, keyVars>>

\* ---------------------------------------------------------- the widget
\* The fields a method of TcamView reads and writes, and what it did.
Cur ==
    [pipeline |-> pipeline, made |-> made, gst_state |-> gst_state,
     gst_pending |-> gst_pending, device_caps |-> device_caps,
     device_lost_callbacks |-> device_lost_callbacks,
     state |-> state, inflight |-> inflight, handed |-> None,
     log_records |-> 0, requests |-> <<>>, invoked |-> <<>>, raised |-> "none"]

\* The state of a handler once an exception has left it: nothing after the
\* raising statement runs.
Raise(s, exc) == [s EXCEPT !.raised = exc]

\* log.debug / log.info / log.warning / log.error: the logging module formats
\* the record inside the handler's emit and reports a formatting failure on
\* stderr (Handler.handleError); no exception reaches the caller.
log(s) == [s EXCEPT !.log_records = @ + 1]

\* pipeline.get_state(1000000).state: the current state of the pipeline after
\* a wait of at most one millisecond for a pending change.
get_state(s) == s.gst_state

\* pipeline.set_state(target). A change down to NULL or to READY is done when
\* the call returns; a change up to PAUSED or PLAYING of this live pipeline
\* either completes in the call (sync) or is still pending when it returns.
set_state(s, target, sync) ==
    LET done == sync \/ target \in {"NULL", "READY"} \/ target = s.gst_state
    IN  [s EXCEPT !.requests = Append(@, target),
                  !.gst_state = IF done THEN target ELSE @,
                  !.gst_pending = IF done THEN VoidPending ELSE target]

\* create_pipeline with the new pipeline started at once instead of parked in READY.
create_pipeline_playing(s) ==
    LET launched == [s EXCEPT !.pipeline = s.made + 1,
                              !.made = s.made + 1,
                              !.gst_state = "NULL",
                              !.gst_pending = VoidPending,
                              !.device_caps = NoFormat]
    IN  log(set_state(launched, "PLAYING", TRUE))

\* TcamView.create_pipeline: drops the reference to the current pipeline,
\* launches a new one and moves it to READY.
create_pipeline(s) ==
    LET launched == [s EXCEPT !.pipeline = s.made + 1,
                              !.made = s.made + 1,
                              !.gst_state = "NULL",
                              !.gst_pending = VoidPending,
                              !.device_caps = NoFormat]
    IN  log(set_state(launched, "READY", TRUE))

\* play without the reset of a playing pipeline.
play_no_reset(s, video_format, sync) ==
    LET s1 == IF s.pipeline = None THEN create_pipeline(s) ELSE s
        s3 == IF video_format # NoFormat
              THEN [log(s1) EXCEPT !.device_caps = video_format]
              ELSE s1
    IN  set_state(log(s3), "PLAYING", sync)

\* TcamView.play
play(s, video_format, sync) ==
    LET s1 == IF s.pipeline = None THEN create_pipeline(s) ELSE s
        s2 == IF get_state(s1) = "PLAYING"
              THEN set_state(log(s1), "NULL", TRUE)
              ELSE s1
        s3 == IF video_format # NoFormat
              THEN [log(s2) EXCEPT !.device_caps = video_format]
              ELSE s2
    IN  set_state(log(s3), "PLAYING", sync)

\* TcamView.pause
pause(s, sync) ==
    IF s.pipeline = None
    THEN Raise(log(s), "AttributeError")
    ELSE set_state(log(s), "PAUSED", sync)

\* TcamView.stop
stop(s) ==
    IF s.pipeline = None
    THEN Raise(log(s), "AttributeError")
    ELSE log(set_state(log(s), "NULL", TRUE))

\* TcamView.register_device_lost
register_device_lost(s, callback) ==
    [s EXCEPT !.device_lost_callbacks = Append(@, callback)]

\* The observer loop walking the list from its end.
RECURSIVE CallEachReversed(_, _)
CallEachReversed(cbs, done) ==
    IF cbs = <<>> THEN done
    ELSE CallEachReversed(SubSeq(cbs, 1, Len(cbs) - 1), Append(done, cbs[Len(cbs)]))

\* TcamView.fire_device_lost: for cb in self.device_lost_callbacks: cb()
RECURSIVE CallEach(_, _)
CallEach(cbs, done) ==
    IF cbs = <<>> THEN done ELSE CallEach(Tail(cbs), Append(done, Head(cbs)))

fire_device_lost(s) ==
    [s EXCEPT !.invoked = CallEach(s.device_lost_callbacks, @)]

\* on_error restarting the stream after the observers have run.
on_error_retry(s, src, message, dbg) ==
    IF src = "tcambin-source"
    THEN IF message = "Device lost"
         THEN set_state(fire_device_lost(log(s)), "PLAYING", TRUE)
         ELSE log(s)
    ELSE IF dbg # "None" THEN log(log(s)) ELSE log(s)

\* on_error treating every error of the source as the loss of the device.
on_error_any_source_error(s, src, message, dbg) ==
    IF src = "tcambin-source"
    THEN fire_device_lost(log(s))
    ELSE IF dbg # "None" THEN log(log(s)) ELSE log(s)

\* TcamView.on_error
on_error(s, src, message, dbg) ==
    IF src = "tcambin-source"
    THEN IF message = "Device lost"
         THEN fire_device_lost(log(s))
         ELSE log(s)
    ELSE IF dbg # "None" THEN log(log(s)) ELSE log(s)

\* ------------------------------------------------------------- actions
\* The call `op` took the widget from Cur to s.
Becomes(s, op) ==
    /\ pipeline' = s.pipeline
    /\ made' = s.made
    /\ gst_state' = s.gst_state
    /\ gst_pending' = s.gst_pending
    /\ device_caps' = s.device_caps
    /\ device_lost_callbacks' = s.device_lost_callbacks
    /\ state' = s.state
    /\ inflight' = s.inflight
    /\ handed' = s.handed
    /\ log_records' = s.log_records
    /\ requests' = s.requests
    /\ invoked' = s.invoked
    /\ raised' = s.raised
    /\ callee' = op
    /\ pre' = [pipeline |-> pipeline, made |-> made, gst_state |-> gst_state,
               gst_pending |-> gst_pending, device_caps |-> device_caps,
               device_lost_callbacks |-> device_lost_callbacks, state |-> state]
    /\ PipeOnly

Op(name, a, b) == [name |-> name, a |-> a, b |-> b]

Play ==
    \E f \in VideoFormats, sync \in BOOLEAN :
        /\ pipeline # None \/ made < MaxPipelines
        /\ Becomes(play(Cur, f, sync), Op("play", f, ""))

CreatePipeline ==
    /\ made < MaxPipelines
    /\ Becomes(create_pipeline(Cur), Op("create_pipeline", "", ""))

Pause ==
    \E sync \in BOOLEAN : Becomes(pause(Cur, sync), Op("pause", "", ""))

Stop ==
    Becomes(stop(Cur), Op("stop", "", ""))

RegisterDeviceLost ==
    \E cb \in Callbacks :
        /\ Len(device_lost_callbacks) < MaxCallbacks
        /\ Becomes(register_device_lost(Cur, cb), Op("register_device_lost", cb, ""))

\* An error message arrives on the bus of the pipeline: the bus exists, and
\* on_error is connected to it, once create_pipeline has run.
OnError ==
    \E src \in ErrorSources, message \in ErrorMessages, dbg \in DebugInfos :
        /\ pipeline # None
        /\ Becomes(on_error(Cur, src, message, dbg), Op("on_error", src, message))

\* The pipeline completes a pending asynchronous state change (no call of the
\* widget: the record of the last call is cleared).
StateChangeDone ==
    /\ pipeline # None
    /\ gst_pending # VoidPending
    /\ Becomes([Cur EXCEPT !.gst_state = gst_pending, !.gst_pending = VoidPending],
               Op("state_change_done", "", ""))

InitPipe ==
    /\ pipeline = None
    /\ made = 0
    /\ gst_state = "NULL"
    /\ gst_pending = VoidPending
    /\ device_caps = NoFormat
    /\ device_lost_callbacks = <<>>
    /\ state = Unset
    /\ inflight = {}
    /\ handed = None
    /\ log_records = 0
    /\ requests = <<>>
    /\ invoked = <<>>
    /\ raised = "none"
    /\ callee = Op("__init__", "", "")
    /\ pre = [pipeline |-> None, made |-> 0, gst_state |-> "NULL",
              gst_pending |-> VoidPending, device_caps |-> NoFormat,
              device_lost_callbacks |-> <<>>, state |-> Unset]

NextPipe ==
    \/ Play
    \/ CreatePipeline
    \/ Pause
    \/ Stop
    \/ RegisterDeviceLost
    \/ OnError
    \/ StateChangeDone


\* ------------------------------------------------- claims: the pipeline
IsCall(name) == callee.name = name
IsDeviceLost == IsCall("on_error") /\ callee.a = "tcambin-source" /\ callee.b = "Device lost"
PipelineUntouched ==
    /\ pipeline = pre.pipeline
    /\ made = pre.made
    /\ gst_state = pre.gst_state
    /\ gst_pending = pre.gst_pending
    /\ device_caps = pre.device_caps
    /\ device_lost_callbacks = pre.device_lost_callbacks

\* C1: a play() made while the pipeline is in the playing state requests the
\* null state, and requests it before it requests the playing state.
C1_PlayWhilePlayingResetsFirst ==
    (IsCall("play") /\ pre.pipeline # None /\ pre.gst_state = "PLAYING")
        => \E i, j \in 1..Len(requests) :
               /\ i < j
               /\ requests[i] = "NULL"
               /\ requests[j] = "PLAYING"
               /\ \A k \in 1..Len(requests) : requests[k] = "PLAYING" => i < k

\* C1 witness: play(format) on a playing pipeline has issued NULL, then PLAYING.
C1_Witness ==
    /\ IsCall("play") /\ callee.a # NoFormat
    /\ pre.pipeline # None /\ pre.gst_state = "PLAYING"
    /\ requests = <<"NULL", "PLAYING">>

\* C2: every play() ends with the request for the playing state; a play() made
\* with no pipeline constructs exactly one, which is moved to READY first, so
\* that the requests are READY then PLAYING.
C2_PlayEndsPlaying ==
    IsCall("play")
        => /\ raised = "none"
           /\ requests # <<>>
           /\ requests[Len(requests)] = "PLAYING"
           /\ pre.pipeline = None
                => /\ made = pre.made + 1
                   /\ pipeline # None
                   /\ requests = <<"READY", "PLAYING">>
           /\ pre.pipeline # None => made = pre.made /\ pipeline = pre.pipeline

\* C2 witness: the first play() of a fresh widget built its pipeline.
C2_Witness ==
    /\ IsCall("play") /\ pre.pipeline = None
    /\ made = 1 /\ requests = <<"READY", "PLAYING">>

\* C3 (as claimed): stop() is valid from every state of the widget: it requests
\* the null state and raises nothing, also while no pipeline exists yet.
C3_StopAlwaysValid ==
    IsCall("stop") => raised = "none" /\ requests = <<"NULL">>

\* C4: a source error with message exactly "Device lost" invokes every
\* registered observer once per registration, in registration order; any other
\* error invokes no observer.
C4_ObserversInOrder ==
    IsCall("on_error")
        => IF IsDeviceLost
           THEN invoked = pre.device_lost_callbacks
           ELSE invoked = <<>>

\* C4 witness: a device-lost error reached three registrations, one observer
\* registered twice.
C4_Witness ==
    /\ IsDeviceLost
    /\ invoked = <<"cb1", "cb2", "cb1">>

C6_OtherErrorsIgnored ==
    (IsCall("on_error") /\ ~IsDeviceLost)
        => /\ requests = <<>>
           /\ invoked = <<>>
           /\ raised = "none"
           /\ PipelineUntouched

\* C6 witness: a source error with another message, with observers registered
\* and the pipeline playing.
C6_Witness ==
    /\ IsCall("on_error") /\ callee.a = "tcambin-source" /\ callee.b = "Device lost."
    /\ pre.device_lost_callbacks # <<>>
    /\ gst_state = "PLAYING"
    /\ invoked = <<>>

\* C16 (as claimed): a call that replaces the pipeline of the widget finds
\* none, or finds the previous one in the null state: no pipeline that is not
\* stopped is left behind.
C16_OnePipelineLive ==
    pipeline # pre.pipeline
        => \/ pre.pipeline = None
           \/ pre.gst_state = "NULL" /\ pre.gst_pending = VoidPending

\* =================================================== TcamScreen: wheel zoom
\* Python floats are IEEE 754 binary64. A positive normal double is kept as
\* [f, e]: f the 52 fraction bits in four limbs of 13 bits, least significant
\* first, and e the exponent; its value is (2^52 + F) * 2^(e - 52).

\* Longest sequence of free wheel events before a round trip.
MaxWheel == 4
\* Most forward steps of a round trip (n forward, then n backward).
MaxTrip == 3

Limb == 2^13
HalfLimb == 2^12

\* self.zoom_factor = 1.0; a new QGraphicsView has the identity transform.
One == [f |-> <<0, 0, 0, 0>>, e |-> 0]
\* zoomInFactor = 1.25 = 0x1.4p+0
zoomInFactor == [f |-> <<0, 0, 0, 2048>>, e |-> 0]
\* zoomOutFactor = 1 / zoomInFactor: the double nearest to 0.8, 0x1.999999999999ap-1
zoomOutFactor == [f |-> <<6554, 3276, 1638, 4915>>, e |-> -1]
\* The literal 0.64: the double 0x1.47ae147ae147bp-1
ZoomFloor == [f |-> <<5243, 7536, 6225, 2293>>, e |-> -1]

\* event.angleDelta().y() of a wheel event: a notch forward, a notch backward,
\* or a horizontal scroll (no vertical component).
WheelDeltas == {120, -120, 0}

\* The 53-bit significand, five limbs, the last one the leading 1.
Significand(x) == x.f \o <<1>>

\* Sum of the limb products of weight Limb^(k-1) in a * b.
RECURSIVE ColumnSum(_, _, _, _)
ColumnSum(a, b, k, i) ==
    IF i > 5 THEN 0
    ELSE (IF k + 1 - i \in 1..5 THEN a[i] * b[k + 1 - i] ELSE 0) + ColumnSum(a, b, k, i + 1)

\* The exact product of two significands: ten limbs, least significant first.
RECURSIVE Product(_, _, _, _)
Product(a, b, k, carry) ==
    IF k > 9 THEN <<carry>>
    ELSE LET col == ColumnSum(a, b, k, 1) + carry
         IN  <<col % Limb>> \o Product(a, b, k + 1, col \div Limb)

\* A fraction plus one unit in the last place; the carry out of the top limb
\* reaches the leading bit and moves the value to the next binade.
RECURSIVE Increment(_, _)
Increment(f, i) ==
    IF i > 4 THEN f
    ELSE IF f[i] + 1 < Limb THEN [f EXCEPT ![i] = @ + 1]
         ELSE Increment([f EXCEPT ![i] = 0], i + 1)

NextUp(x) ==
    IF x.f = <<Limb - 1, Limb - 1, Limb - 1, Limb - 1>>
    THEN [f |-> <<0, 0, 0, 0>>, e |-> x.e + 1]
    ELSE [f |-> Increment(x.f, 1), e |-> x.e]

\* a * b of two doubles, rounded to the nearest double, ties to even. The exact
\* product P of the significands lies in [2^104, 2^106): below 2^105 the result
\* keeps P's bits 52..104, else bits 53..105 and the exponent grows by one.
FMul(a, b) ==
    LET d == Product(Significand(a), Significand(b), 1, 0)
        low == d[9] = 1
        kept == IF low
                THEN <<d[5], d[6], d[7], d[8]>>
                ELSE [i \in 1..4 |-> (d[i + 4] \div 2) + (d[i + 5] % 2) * HalfLimb]
        half == IF low THEN d[4] >= HalfLimb ELSE d[5] % 2 = 1
        sticky == IF low
                  THEN d[4] % HalfLimb # 0 \/ d[3] # 0 \/ d[2] # 0 \/ d[1] # 0
                  ELSE d[4] # 0 \/ d[3] # 0 \/ d[2] # 0 \/ d[1] # 0
        trunc == [f |-> kept, e |-> a.e + b.e + (IF low THEN 0 ELSE 1)]
    IN  IF half /\ (sticky \/ kept[1] % 2 = 1) THEN NextUp(trunc) ELSE trunc

\* a < b for two positive doubles: by exponent, then by fraction from the top limb.
RECURSIVE FracLess(_, _, _)
FracLess(f, g, i) ==
    IF i < 1 THEN FALSE
    ELSE IF f[i] # g[i] THEN f[i] < g[i] ELSE FracLess(f, g, i - 1)

FLess(a, b) == IF a.e # b.e THEN a.e < b.e ELSE FracLess(a.f, b.f, 4)
FLessEq(a, b) == a = b \/ FLess(a, b)

\* The clamp testing the factor it has instead of the factor the step would give.
wheelEvent_clamp_old(z, delta) ==
    LET zoomFactor == IF delta > 0 THEN zoomInFactor ELSE zoomOutFactor
    IN  IF FLessEq(z.zoom_factor, ZoomFloor)
        THEN [z EXCEPT !.rejected = TRUE]
        ELSE [zoom_factor |-> FMul(z.zoom_factor, zoomFactor),
              view_scale |-> FMul(z.view_scale, zoomFactor),
              rejected |-> FALSE]

\* Zooming out by 0.75 instead of the reciprocal of the zoom-in factor.
wheelEvent_other_reciprocal(z, delta) ==
    LET zoomFactor == IF delta > 0 THEN zoomInFactor
                      ELSE [f |-> <<0, 0, 0, 4096>>, e |-> -1]
    IN  IF FLessEq(FMul(z.zoom_factor, zoomFactor), ZoomFloor)
        THEN [z EXCEPT !.rejected = TRUE]
        ELSE [zoom_factor |-> FMul(z.zoom_factor, zoomFactor),
              view_scale |-> FMul(z.view_scale, zoomFactor),
              rejected |-> FALSE]

\* TcamScreen.wheelEvent: the factor of the step, the clamp, then the factor
\* and the view's transform are multiplied by it.
wheelEvent(z, delta) ==
    LET zoomFactor == IF delta > 0 THEN zoomInFactor ELSE zoomOutFactor
    IN  IF FLessEq(FMul(z.zoom_factor, zoomFactor), ZoomFloor)
        THEN [z EXCEPT !.rejected = TRUE]
        ELSE [zoom_factor |-> FMul(z.zoom_factor, zoomFactor),
              view_scale |-> FMul(z.view_scale, zoomFactor),
              rejected |-> FALSE]

Screen == [zoom_factor |-> zoom_factor, view_scale |-> view_scale, rejected |-> FALSE]

NoTrip == [phase |-> "none", z0 |-> One, s0 |-> One, n |-> 0, forward |-> 0, backward |-> 0,
           rejected |-> FALSE]

\* A wheel event outside a round trip.
Wheel ==
    \E delta \in WheelDeltas :
        /\ trip.phase # "run"
        /\ wheel_events < MaxWheel
        /\ LET z == wheelEvent(Screen, delta)
           IN  /\ zoom_factor' = z.zoom_factor
               /\ view_scale' = z.view_scale
        /\ wheel_events' = wheel_events + 1
        /\ trip' = NoTrip
        /\ ZoomOnly

\* A round trip begins: n steps forward and n steps backward are to come.
TripStart ==
    \E n \in 0..MaxTrip :
        /\ trip.phase = "none"
        /\ trip' = [phase |-> IF n = 0 THEN "done" ELSE "run", z0 |-> zoom_factor,
                    s0 |-> view_scale, n |-> n, forward |-> n, backward |-> n,
                    rejected |-> FALSE]
        /\ UNCHANGED <<zoom_factor, view_scale, wheel_events>>
        /\ ZoomOnly

\* The next wheel event of the round trip.
TripStep ==
    /\ trip.phase = "run"
    /\ LET fwd == trip.forward > 0
           z == wheelEvent(Screen, IF fwd THEN 120 ELSE -120)
       IN  /\ zoom_factor' = z.zoom_factor
           /\ view_scale' = z.view_scale
           /\ trip' = [trip EXCEPT
                          !.forward = IF fwd THEN @ - 1 ELSE @,
                          !.backward = IF fwd THEN @ ELSE @ - 1,
                          !.rejected = @ \/ z.rejected,
                          !.phase = IF ~fwd /\ trip.backward = 1 THEN "done" ELSE "run"]
    /\ UNCHANGED wheel_events
    /\ ZoomOnly

InitZoom ==
    /\ zoom_factor = One
    /\ view_scale = One
    /\ wheel_events = 0
    /\ trip = NoTrip

NextZoom ==
    \/ Wheel
    \/ TripStart
    \/ TripStep

\* ---------------------------------------------------- claims: wheel zoom
\* Number of units in the last place from a up to b, for b >= a, as far as it
\* is below one limb; Limb stands for any larger distance.
RECURSIVE UlpsAbove(_, _, _, _)
UlpsAbove(a, b, i, acc) ==
    IF i < 1 THEN acc
    ELSE IF acc >= 2 THEN Limb
         ELSE UlpsAbove(a, b, i - 1, acc * Limb + (b.f[i] - a.f[i]))

Ulps(a, b) ==
    IF b.e - a.e \notin {0, 1} THEN Limb
    ELSE LET u == UlpsAbove(a, b, 4, b.e - a.e) IN IF u >= Limb THEN Limb ELSE u

\* C8: after any sequence of wheel events from the initial factor 1.0 the
\* cumulative zoom factor is strictly greater than 0.64.
C8_ZoomAboveFloor == FLess(ZoomFloor, zoom_factor)

\* C8 witness: a backward step was rejected by the clamp, the factor standing
\* one unit in the last place above the floor.
C8_Witness ==
    /\ wheel_events = 3
    /\ zoom_factor = NextUp(ZoomFloor)
    /\ FLessEq(FMul(zoom_factor, zoomOutFactor), ZoomFloor)

\* C9 (as claimed): n forward steps followed by n backward steps return the
\* zoom factor and the view's scale to the value z they started from, and no
\* backward step is rejected.
C9_RoundTripExact ==
    trip.phase = "done"
        => /\ ~trip.rejected
           /\ zoom_factor = trip.z0
           /\ view_scale = trip.s0

\* C9 (amended): n forward steps followed by n backward steps reject no step
\* and return the zoom factor and the view's scale to z approximately: never
\* below z and at most 3n units in the last place above it.
C9_RoundTripApprox ==
    trip.phase = "done"
        => /\ ~trip.rejected
           /\ FLessEq(trip.z0, zoom_factor)
           /\ Ulps(trip.z0, zoom_factor) <= 3 * trip.n
           /\ FLessEq(trip.s0, view_scale)
           /\ Ulps(trip.s0, view_scale) <= 3 * trip.n

\* C9 witness: a round trip of two steps each way has ended above its start.
C9_Witness ==
    /\ trip.phase = "done"
    /\ trip.n = 2
    /\ ~trip.rejected
    /\ zoom_factor # trip.z0
    /\ Ulps(trip.z0, zoom_factor) \in 1..6

\* ======================================= TcamView: frames and fullscreen
\* toggle_fullscreen runs on the UI thread, new_buffer on the streaming
\* thread of the pipeline that announces the sample; the interpreter may
\* switch threads between any two statements, so each is modelled in the steps
\* at which it reads or writes a field the other one uses.

\* Most samples announced in one run.
MaxFrames == 2
\* Most fullscreen surfaces made in one run.
MaxSurfaces == 2

\* self.container, made by __init__
Container == 1

\* toggle_fullscreen, first statement: the flag is flipped (and, leaving
\* fullscreen, showNormal is called).
ToggleBegin ==
    /\ toggle_pc = "idle"
    /\ is_fullscreen \/ Len(surfaces) < MaxSurfaces + 1
    /\ is_fullscreen' = ~is_fullscreen
    /\ toggle_pc' = IF is_fullscreen THEN "leave" ELSE "enter"
    /\ UNCHANGED <<fullscreen_container, surfaces, buffer_pc, buffer_surface, frames, handovers>>
    /\ ViewOnly

\* Leaving: fullscreen_container.hide(); fullscreen_container.deleteLater()
ToggleDiscard ==
    /\ toggle_pc = "leave"
    /\ surfaces' = [surfaces EXCEPT ![fullscreen_container] = "discarded"]
    /\ toggle_pc' = "discarded"
    /\ UNCHANGED <<is_fullscreen, fullscreen_container, buffer_pc, buffer_surface, frames,
                   handovers>>
    /\ ViewOnly

\* Leaving: self.fullscreen_container = None
ToggleClear ==
    /\ toggle_pc = "discarded"
    /\ fullscreen_container' = None
    /\ toggle_pc' = "idle"
    /\ UNCHANGED <<is_fullscreen, surfaces, buffer_pc, buffer_surface, frames, handovers>>
    /\ ViewOnly

\* Entering: self.fullscreen_container = TcamScreen()
ToggleCreate ==
    /\ toggle_pc = "enter"
    /\ surfaces' = Append(surfaces, "alive")
    /\ fullscreen_container' = Len(surfaces) + 1
    /\ toggle_pc' = "created"
    /\ UNCHANGED <<is_fullscreen, buffer_pc, buffer_surface, frames, handovers>>
    /\ ViewOnly

\* Entering: showFullScreen, show, setFocusPolicy, installEventFilter, connect
ToggleShow ==
    /\ toggle_pc = "created"
    /\ toggle_pc' = "idle"
    /\ UNCHANGED <<is_fullscreen, fullscreen_container, surfaces, buffer_pc, buffer_surface,
                   frames, handovers>>
    /\ ViewOnly

\* The event loop, reached again once the UI thread has left its handler,
\* deletes a surface that deleteLater has scheduled.
DeferredDelete ==
    \E i \in 2..Len(surfaces) :
        /\ toggle_pc = "idle"
        /\ surfaces[i] = "discarded"
        /\ surfaces' = [surfaces EXCEPT ![i] = "deleted"]
        /\ UNCHANGED <<is_fullscreen, fullscreen_container, toggle_pc, buffer_pc,
                       buffer_surface, frames, handovers>>
        /\ ViewOnly

\* new_buffer up to the test `self.fullscreen_container is not None`: the
\* sample is pulled and wrapped into self.image, then the branch is taken. The
\* sink of a playing pipeline announces the sample.
NewBufferTest ==
    /\ pipeline # None /\ gst_state = "PLAYING"
    /\ buffer_pc = "idle"
    /\ frames < MaxFrames
    /\ frames' = frames + 1
    /\ buffer_pc' = IF fullscreen_container # None THEN "fullscreen" ELSE "windowed"
    /\ UNCHANGED <<is_fullscreen, fullscreen_container, surfaces, toggle_pc, buffer_surface,
                   handovers>>
    /\ ViewOnly

\* The fullscreen branch reads self.fullscreen_container a second time to
\* reach its new_pixmap signal.
NewBufferLoad ==
    /\ buffer_pc = "fullscreen"
    /\ buffer_surface' = fullscreen_container
    /\ buffer_pc' = "emit"
    /\ UNCHANGED <<is_fullscreen, fullscreen_container, surfaces, toggle_pc, frames, handovers>>
    /\ ViewOnly

\* What one emission of new_pixmap did: the frame, the surface it went to
\* (None: the attribute access raised and no surface got it), the condition
\* of that surface and the fullscreen surface present at that moment.
Handover(surface) ==
    [frame |-> frames, surface |-> surface,
     condition |-> IF surface = None THEN "none" ELSE surfaces[surface],
     fullscreen |-> fullscreen_container]

\* new_pixmap.emit(self.image) on the surface of the branch taken.
NewBufferEmit ==
    /\ buffer_pc \in {"emit", "windowed"}
    /\ handovers' = Append(handovers,
                           Handover(IF buffer_pc = "emit" THEN buffer_surface ELSE Container))
    /\ buffer_pc' = "idle"
    /\ buffer_surface' = None
    /\ UNCHANGED <<is_fullscreen, fullscreen_container, surfaces, toggle_pc, frames>>
    /\ ViewOnly

InitView ==
    /\ is_fullscreen = FALSE
    /\ fullscreen_container = None
    /\ surfaces = <<"alive">>
    /\ toggle_pc = "idle"
    /\ buffer_pc = "idle"
    /\ buffer_surface = None
    /\ frames = 0
    /\ handovers = <<>>

NextView ==
    \/ Play
    \/ StateChangeDone
    \/ ToggleBegin
    \/ ToggleDiscard
    \/ ToggleClear
    \/ ToggleCreate
    \/ ToggleShow
    \/ DeferredDelete
    \/ NewBufferTest
    \/ NewBufferLoad
    \/ NewBufferEmit

\* ------------------------------------------- claims: frames and fullscreen
\* C7 (as claimed): under every interleaving of new_buffer with
\* toggle_fullscreen each frame is handed to exactly one surface, which exists
\* at the hand-over and is the fullscreen surface if one is present, else the
\* windowed one; no frame goes to a discarded surface or to none. (A frame
\* whose branch was taken just before a switch is allowed here to reach the
\* windowed surface while the new fullscreen surface is already present.)
C7_FrameToLiveSurface ==
    \A i \in 1..Len(handovers) :
        LET h == handovers[i]
        IN  /\ h.frame = i
            /\ h.surface # None
            /\ h.condition = "alive"
            /\ h.surface \in {h.fullscreen, Container}

\* ============================================== TcamScreen: key presses
\* Key presses reach keyPressEvent of a surface on the UI thread, between two
\* handlers of that thread; the handler and the toggle_fullscreen it sets off
\* through destroy_widget run to their end before the next event.

\* event.key(): the three keys the handler names, and others near them.
PressedKeys == {"Key_F11", "Key_Escape", "Key_F", "Key_F10", "Key_F12", "Key_G", "Key_Q",
                "Key_Space"}

\* The fields toggle_fullscreen and keyPressEvent use, and what the handler
\* did: whether it called event.ignore(), how often it emitted destroy_widget.
Shown ==
    [is_fullscreen |-> is_fullscreen, fullscreen_container |-> fullscreen_container,
     surfaces |-> surfaces, ignored |-> FALSE, destroyed |-> 0]

\* TcamView.toggle_fullscreen, from its first statement to its last.
toggle_fullscreen(v) ==
    IF v.is_fullscreen
    THEN [v EXCEPT !.is_fullscreen = FALSE,
                   !.surfaces[v.fullscreen_container] = "discarded",
                   !.fullscreen_container = None]
    ELSE [v EXCEPT !.is_fullscreen = TRUE,
                   !.surfaces = Append(@, "alive"),
                   !.fullscreen_container = Len(v.surfaces) + 1]

\* QWidget.isFullScreen of a surface: showFullScreen is called on the
\* fullscreen surface when it is made and on no other; self.container is a
\* child of the widget's layout.
isFullScreen(v, surface) == surface # Container /\ v.surfaces[surface] = "alive"

\* keyPressEvent leaving fullscreen on Escape only (mutation).
keyPressEvent_escape_only(v, surface, key) ==
    IF isFullScreen(v, surface)
    THEN IF key = "Key_Escape"
         THEN toggle_fullscreen([v EXCEPT !.destroyed = @ + 1])
         ELSE v
    ELSE [v EXCEPT !.ignored = TRUE]

\* TcamScreen.keyPressEvent; destroy_widget is connected to toggle_fullscreen
\* of the widget, which runs inside emit().
keyPressEvent(v, surface, key) ==
    IF isFullScreen(v, surface)
    THEN IF key = "Key_F11" \/ key = "Key_Escape" \/ key = "Key_F"
         THEN toggle_fullscreen([v EXCEPT !.destroyed = @ + 1])
         ELSE v
    ELSE [v EXCEPT !.ignored = TRUE]

NoKey ==
    [key |-> "none", surface |-> None, fullscreen |-> FALSE, ignored |-> FALSE,
     destroyed |-> 0, was_fullscreen |-> FALSE, had_container |-> None]

\* The events that reach a filter: presses and releases of keys, and others.
Events ==
    {[type |-> t, key |-> k] : t \in {"KeyPress", "KeyRelease"}, k \in PressedKeys}
        \cup {[type |-> "MouseMove", key |-> "none"], [type |-> "Wheel", key |-> "none"]}

\* A value of the enumeration QEvent.Type, and the attribute `type` of an
\* event: a bound method, which the filter compares without calling it. A
\* method equals no value of the enumeration.
QEventType(name) == [kind |-> "QEvent.Type", value |-> name]
event_type(event) == [kind |-> "method", value |-> "QEvent.type"]

\* QObject.eventFilter: the default filter lets the event pass.
QObject_eventFilter(v) == [shown |-> v, consumed |-> FALSE, toggled |-> 0]

\* TcamView.eventFilter
eventFilter(v, event) ==
    IF event_type(event) = QEventType("KeyPress") /\ event.key = "Key_F11"
    THEN [shown |-> toggle_fullscreen(v), consumed |-> TRUE, toggled |-> 1]
    ELSE QObject_eventFilter(v)

NoFilter ==
    [type |-> "none", key |-> "none", consumed |-> FALSE, toggled |-> 0,
     was_fullscreen |-> FALSE, had_container |-> None]

\* The handler has taken the widget from Shown to v.
Shows(v) ==
    /\ is_fullscreen' = v.is_fullscreen
    /\ fullscreen_container' = v.fullscreen_container
    /\ surfaces' = v.surfaces
    /\ UNCHANGED <<toggle_pc, buffer_pc, buffer_surface, frames, handovers>>
    /\ KeyOnly

\* A key is pressed with the focus on a surface that is shown.
KeyPress ==
    \E key \in PressedKeys, surface \in 1..Len(surfaces) :
        /\ toggle_pc = "idle"
        /\ surfaces[surface] = "alive"
        /\ LET v == keyPressEvent(Shown, surface, key)
           IN  /\ Shows(v)
               /\ key_event' = [key |-> key, surface |-> surface,
                                fullscreen |-> isFullScreen(Shown, surface),
                                ignored |-> v.ignored, destroyed |-> v.destroyed,
                                was_fullscreen |-> is_fullscreen,
                                had_container |-> fullscreen_container]
               /\ filter_event' = NoFilter

\* toggle_fullscreen called by the application, run in one piece.
ToggleFullscreen ==
    /\ toggle_pc = "idle"
    /\ is_fullscreen \/ Len(surfaces) < MaxSurfaces + 1
    /\ Shows(toggle_fullscreen(Shown))
    /\ key_event' = NoKey
    /\ filter_event' = NoFilter

\* An event of an object the widget watches passes through its eventFilter.
EventFilter ==
    \E event \in Events :
        /\ toggle_pc = "idle"
        /\ LET r == eventFilter(Shown, event)
           IN  /\ Len(r.shown.surfaces) <= MaxSurfaces + 1
               /\ Shows(r.shown)
               /\ filter_event' = [type |-> event.type, key |-> event.key,
                                   consumed |-> r.consumed, toggled |-> r.toggled,
                                   was_fullscreen |-> is_fullscreen,
                                   had_container |-> fullscreen_container]
               /\ key_event' = NoKey

InitKeys == key_event = NoKey /\ filter_event = NoFilter

NextKeys ==
    \/ KeyPress
    \/ ToggleFullscreen
    \/ EventFilter
    \/ DeferredDelete

\* ------------------------------------------------- claims: key presses
\* C17: F11, Escape or F pressed on the fullscreen surface leaves fullscreen:
\* is_fullscreen is false, the reference to the surface is cleared and the
\* surface is discarded (scheduled for deletion or deleted); any other key
\* pressed on it leaves the fullscreen state as it was; a key pressed on a
\* surface that is not fullscreen is ignored and changes nothing.
C17_ExitKeysLeaveFullscreen ==
    key_event.key # "none" =>
        IF key_event.fullscreen
        THEN IF key_event.key \in {"Key_F11", "Key_Escape", "Key_F"}
             THEN /\ is_fullscreen = FALSE
                  /\ fullscreen_container = None
                  /\ surfaces[key_event.surface] \in {"discarded", "deleted"}
                  /\ surfaces[Container] = "alive"
                  /\ key_event.destroyed = 1
             ELSE /\ is_fullscreen = key_event.was_fullscreen
                  /\ fullscreen_container = key_event.had_container
                  /\ surfaces[key_event.surface] = "alive"
                  /\ key_event.destroyed = 0
        ELSE /\ key_event.ignored
             /\ key_event.destroyed = 0
             /\ is_fullscreen = key_event.was_fullscreen
             /\ fullscreen_container = key_event.had_container

\* C17 witness: F pressed on the second fullscreen surface of the run has
\* discarded it.
C17_Witness ==
    /\ key_event.key = "Key_F"
    /\ key_event.fullscreen
    /\ key_event.surface = 3
    /\ surfaces[3] = "discarded"
    /\ is_fullscreen = FALSE

\* C21 (as claimed): a press of F11 that passes through the event filter of
\* the widget calls toggle_fullscreen once and is consumed; every other event
\* leaves the fullscreen state as it was and goes on to the default filter.
C21_FilterTogglesOnF11 ==
    filter_event.type # "none" =>
        IF filter_event.type = "KeyPress" /\ filter_event.key = "Key_F11"
        THEN /\ filter_event.toggled = 1
             /\ filter_event.consumed
             /\ is_fullscreen = ~filter_event.was_fullscreen
        ELSE /\ filter_event.toggled = 0
             /\ ~filter_event.consumed
             /\ is_fullscreen = filter_event.was_fullscreen
             /\ fullscreen_container = filter_event.had_container

\* ================================== TcamScreen and ViewItem: the pointer
\* The item of a surface follows the pointer through its hover events and the
\* surface reports the pixel under it with every pixmap it is given. All of
\* it runs on the UI thread, one handler after the other. Positions are item
\* coordinates, kept as whole numbers.

\* The sizes of the frames a device delivers (a change of format changes them).
PixmapWidths == {2, 3}
PixmapHeights == {2, 3}

\* ViewItem.hoverEnterEvent
hoverEnterEvent(p) == [p EXCEPT !.mouse_over = TRUE]

\* ViewItem.hoverLeaveEvent
hoverLeaveEvent(p) == [p EXCEPT !.mouse_over = FALSE]

\* ViewItem.hoverMoveEvent
hoverMoveEvent(p, x, y) == [p EXCEPT !.mouse_position_x = x, !.mouse_position_y = y]

\* ViewItem.get_mouse_color: the item after the call, the value returned and
\* the coordinate handed to QImage.pixelColor, if any. pixelColor gives an
\* invalid colour for a coordinate that is not in the image; the branch that
\* resets the position has no return statement and gives None.
get_mouse_color(p) ==
    IF p.mouse_over
    THEN IF p.mouse_position_x <= p.width /\ p.mouse_position_y <= p.height
         THEN [pix |-> p,
               color |-> IF /\ p.mouse_position_x \in 0..(p.width - 1)
                            /\ p.mouse_position_y \in 0..(p.height - 1)
                         THEN "pixel" ELSE "invalid",
               read |-> <<p.mouse_position_x, p.mouse_position_y>>]
         ELSE [pix |-> [p EXCEPT !.mouse_position_x = -1, !.mouse_position_y = -1],
               color |-> "None",
               read |-> <<>>]
    ELSE [pix |-> p, color |-> "black", read |-> <<>>]

\* TcamScreen.on_new_pixmap: setPixmap, then send_mouse_pixel, which calls
\* new_pixel_under_mouse.emit(mouse_over, get_mouse_color()). The signal is
\* declared (bool, QColor): the call with None in place of the colour raises
\* TypeError.
on_new_pixmap(p, width, height) ==
    LET shown == [p EXCEPT !.width = width, !.height = height]
        c == get_mouse_color(shown)
    IN  [pix |-> c.pix,
         emitted |-> <<[over |-> shown.mouse_over, color |-> c.color]>>,
         read |-> c.read,
         raised |-> IF c.color = "None" THEN "TypeError" ELSE "none"]

\* The record of a handler that emits nothing.
Hover(name) ==
    [name |-> name, emitted |-> <<>>, read |-> <<>>, raised |-> "none",
     over |-> FALSE, x |-> -1, y |-> -1]

\* The pointer comes over the item: it has a pixmap with an area.
HoverEnter ==
    /\ ~pix.mouse_over
    /\ pix.width > 0
    /\ pix' = hoverEnterEvent(pix)
    /\ pointer' = Hover("hoverEnterEvent")
    /\ PointerOnly

HoverLeave ==
    /\ pix.mouse_over
    /\ pix' = hoverLeaveEvent(pix)
    /\ pointer' = Hover("hoverLeaveEvent")
    /\ PointerOnly

\* The pointer moves over the item, to a position on the pixmap shown.
HoverMove ==
    \E x \in 0..(pix.width - 1), y \in 0..(pix.height - 1) :
        /\ pix.mouse_over
        /\ pix' = hoverMoveEvent(pix, x, y)
        /\ pointer' = Hover("hoverMoveEvent")
        /\ PointerOnly

\* A frame arrives: new_pixmap is delivered to on_new_pixmap.
NewPixmap ==
    \E width \in PixmapWidths, height \in PixmapHeights :
        LET r == on_new_pixmap(pix, width, height)
        IN  /\ pix' = r.pix
            /\ pointer' = [name |-> "on_new_pixmap", emitted |-> r.emitted, read |-> r.read,
                           raised |-> r.raised, over |-> pix.mouse_over,
                           x |-> pix.mouse_position_x, y |-> pix.mouse_position_y]
            /\ PointerOnly

InitPointer ==
    /\ pix = [mouse_over |-> FALSE, mouse_position_x |-> -1, mouse_position_y |-> -1,
              width |-> 0, height |-> 0]
    /\ pointer = Hover("__init__")

NextPointer ==
    \/ HoverEnter
    \/ HoverLeave
    \/ HoverMove
    \/ NewPixmap

\* ------------------------------------------------- claims: the pointer
InBounds(x, y) == x \in 0..(pix.width - 1) /\ y \in 0..(pix.height - 1)

\* C13 (as claimed): a frame makes the surface emit one pointer status:
\* (false, black) with the pointer not over it; with the pointer over it and
\* the recorded position outside the new pixmap the position is reset to
\* (-1, -1) and the status is (true, no colour); a pixel is read only at a
\* position inside the pixmap.
C13_PointerStatusPerFrame ==
    pointer.name = "on_new_pixmap" =>
        /\ Len(pointer.emitted) = 1
        /\ ~pointer.over
               => pointer.emitted[1] = [over |-> FALSE, color |-> "black"] /\ pointer.read = <<>>
        /\ (pointer.over /\ ~InBounds(pointer.x, pointer.y))
               => /\ pix.mouse_position_x = -1 /\ pix.mouse_position_y = -1
                  /\ pointer.emitted[1] = [over |-> TRUE, color |-> "None"]
                  /\ pointer.read = <<>>
        /\ pointer.read # <<>> => InBounds(pointer.read[1], pointer.read[2])

\* ================================================ TcamView: format menu
\* A capability structure is [name, format, width, height, framerate]. What
\* fmt.get_value(field) gives depends on the kind of the field's value:
\*   format     "str" a string, "list" a GstValueList (get_value raises
\*              TypeError, the gap in the bindings noted at get_framerates),
\*              "none" no such field (None)
\*   width,     "int" a fixed value, "range" an integer range, "none" no such
\*   height     field (None)
\*   framerate  "list" a list of fractions (get_value raises TypeError and the
\*              text of the structure is split instead, into `parts` pieces),
\*              "range" a Gst.FractionRange, "fraction" one Gst.Fraction,
\*              "none" no such field (None)
\* Python strings are kept as strings; where the code searches or formats
\* them they are sequences of tokens.

\* Longest capability list drawn from the pool of structures.
MaxCaps == 2

Str(s) == [kind |-> "str", s |-> s]
ValueList == [kind |-> "list", s |-> ""]
Missing == [kind |-> "none", s |-> ""]
Fixed(v) == [kind |-> "int", lo |-> v, hi |-> v]
Range(lo, hi) == [kind |-> "range", lo |-> lo, hi |-> hi]
NoDim == [kind |-> "none", lo |-> "", hi |-> ""]
Rates(rs) == [kind |-> "list", rates |-> rs, parts |-> 3]
RateRange == [kind |-> "range", rates |-> <<>>, parts |-> 0]
Structure(name, format, width, height, framerate) ==
    [name |-> name, format |-> format, width |-> width, height |-> height,
     framerate |-> framerate]

\* The tokens of a string.
Tokens(s) ==
    CASE s = "GRAY8" -> <<"GRAY", "8">>
      [] s = "GRAY16_LE" -> <<"GRAY", "16_LE">>
      [] s = "{ BGRx, GRAY8 }" -> <<"{ ", "BGRx", ", ", "GRAY", "8", " }">>
      [] s = "]x[" -> <<"]", "x", "[">>
      [] OTHER -> <<s>>

\* sub in text, for two token sequences
IsInfix(sub, text) ==
    \E i \in 0..(Len(text) - Len(sub)) : SubSeq(text, i + 1, i + Len(sub)) = sub

\* str(width), str(height) as "{}".format gives them
DimText(d) ==
    CASE d.kind = "int" -> <<d.lo>>
      [] d.kind = "range" -> <<"[", d.lo, ",", d.hi, "]">>
      [] OTHER -> <<"None">>

\* The structures of the capability list the testable property of the format
\* menu names: raw BGRx, a format naming BGRx and GRAY8 (as a value list or in
\* one string), JPEG, a range-valued resolution, the wildcard.
RawBGRx == Structure("video/x-raw", Str("BGRx"), Fixed("640"), Fixed("480"),
                     Rates(<<"15/1", "30/1">>))
BothFormats == {Structure("video/x-raw", f, Fixed("640"), Fixed("480"), Rates(<<"30/1">>)) :
                    f \in {ValueList, Str("{ BGRx, GRAY8 }")}}
Jpeg == Structure("image/jpeg", Missing, Fixed("1920"), Fixed("1080"), Rates(<<"30/1">>))
RangeResolutions == {Structure("video/x-raw", Str(f), Range("96", "2592"), Range("2", "1944"),
                               RateRange) : f \in {"BGRx", "GRAY8", "GRAY16_LE"}}
Wildcard == Structure("ANY", Missing, NoDim, NoDim, [kind |-> "none", rates |-> <<>>, parts |-> 0])

\* The lists made of one structure of each of the five kinds, in any order.
MixedLists ==
    UNION {{s \in [1..5 -> {RawBGRx, b, Jpeg, r, Wildcard}] :
                \A i, j \in 1..5 : i # j => s[i] # s[j]} :
           <<b, r>> \in BothFormats \X RangeResolutions}

\* Other structures a device advertises.
StructurePool ==
    {RawBGRx, Jpeg, Wildcard,
     Structure("video/x-raw", Str("GRAY8"), Fixed("640"), Fixed("480"),
               Rates(<<"5/1", "10/1", "30/1">>)),
     Structure("video/x-raw", Str("GRAY16_LE"), Fixed("1920"), Fixed("1080"), RateRange),
     Structure("video/x-raw", Missing, Fixed("640"), Fixed("480"), Rates(<<"30/1">>)),
     Structure("video/x-raw", Str("GRAY8"), NoDim, Fixed("480"), Rates(<<"30/1">>)),
     Structure("video/x-bayer", Str("rggb"), Fixed("640"), Fixed("480"),
               [kind |-> "list", rates |-> <<"30/1">>, parts |-> 1]),
     Structure("video/x-raw", Str("GRAY8"), Fixed("1920"), Fixed("1080"),
               [kind |-> "fraction", rates |-> <<"30/1">>, parts |-> 0])}

CapsLists ==
    MixedLists \cup UNION {[1..n -> StructurePool] : n \in 0..MaxCaps}

\* get_framerates keeping only the first rate of a list (mutation).
get_framerates_first_only(fmt) ==
    IF fmt.framerate.kind = "list"
    THEN IF fmt.framerate.parts = 3
         THEN [raised |-> "none", kind |-> "list", rates |-> SubSeq(fmt.framerate.rates, 1, 1)]
         ELSE [raised |-> "ValueError", kind |-> "list", rates |-> <<>>]
    ELSE [raised |-> "none", kind |-> fmt.framerate.kind, rates |-> fmt.framerate.rates]

\* get_framerates: the structured read, or for a list the text between the
\* braces after "framerate=": re.split must give exactly three pieces, else
\* the unpacking raises ValueError.
get_framerates(fmt) ==
    IF fmt.framerate.kind = "list"
    THEN IF fmt.framerate.parts = 3
         THEN [raised |-> "none", kind |-> "list", rates |-> fmt.framerate.rates]
         ELSE [raised |-> "ValueError", kind |-> "list", rates |-> <<>>]
    ELSE [raised |-> "none", kind |-> fmt.framerate.kind, rates |-> fmt.framerate.rates]

\* format_dict, a dict in insertion order: the position of a key, 0 if absent.
Lookup(dict, key) ==
    IF \E i \in 1..Len(dict) : dict[i].title = key
    THEN CHOOSE i \in 1..Len(dict) : dict[i].title = key
    ELSE 0

\* One field of the format string of an action.
Field(key, value) == [key |-> key, value |-> value]

\* The actions of one resolution submenu: one per rate, labelled with it and
\* bound to play(f).
RECURSIVE RateActions(_, _, _, _, _)
RateActions(rates, format_name, format_string, width, height) ==
    IF rates = <<>> THEN <<>>
    ELSE LET rate == Head(rates)
             f == IF format_string = "image/jpeg"
                  THEN <<Field("", <<format_name>>), Field("", <<>>),
                         Field("width", DimText(width)), Field("height", DimText(height)),
                         Field("framerate", <<rate>>)>>
                  ELSE <<Field("", <<format_name>>), Field("format", Tokens(format_string)),
                         Field("width", DimText(width)), Field("height", DimText(height)),
                         Field("framerate", <<rate>>)>>
         IN  <<[label |-> rate, f |-> f]>>
             \o RateActions(Tail(rates), format_name, format_string, width, height)

\* The body of the loop over the structures of the capability list: st is
\* format_dict, the warnings logged and the exception that has left the loop.
ScanStructure(st, fmt) ==
    LET format_name == fmt.name
        \* fmt.get_value("format"), or the name for JPEG
        read == IF format_name = "image/jpeg" THEN Str(format_name) ELSE fmt.format
        \* except TypeError: log.warning, continue
        warn == [st EXCEPT !.warnings = @ + 1]
    IN
    IF IsInfix(Tokens("ANY"), Tokens(format_name)) THEN st
    \* a value list: get_value raises TypeError; None: `"BGRx" in None` raises TypeError
    ELSE IF read.kind # "str" THEN warn
    ELSE
    LET bgrx == IsInfix(Tokens("BGRx"), Tokens(read.s))
        gray == IsInfix(Tokens("GRAY"), Tokens(read.s))
        format_string == IF bgrx /\ ~gray THEN "GRAY8" ELSE read.s
    IN
    IF bgrx /\ gray THEN st
    ELSE IF ~bgrx /\ format_string = "None" THEN st
    ELSE
    LET dict1 == IF Lookup(st.dict, format_string) = 0
                 THEN Append(st.dict, [title |-> format_string, menus |-> <<>>])
                 ELSE st.dict
        st1 == [st EXCEPT !.dict = dict1]
        f_str == Tokens(format_string) \o <<" - ">> \o DimText(fmt.width) \o <<"x">>
                     \o DimText(fmt.height)
        res_menu_string == DimText(fmt.width) \o <<"x">> \o DimText(fmt.height)
    IN
    IF IsInfix(Tokens("None"), f_str) THEN st1
    ELSE IF IsInfix(Tokens("range"), Tokens(format_string)) THEN st1
    ELSE IF IsInfix(Tokens("]x["), res_menu_string) THEN st1
    ELSE
    LET k == Lookup(dict1, format_string)
        rates == get_framerates(fmt)
        actions == IF rates.raised = "none" /\ rates.kind = "list"
                   THEN RateActions(rates.rates, format_name, format_string, fmt.width,
                                    fmt.height)
                   ELSE <<>>
        \* f_menu = format_dict[format_string].addMenu(res_menu_string)
        f_menu == [title |-> res_menu_string, actions |-> actions]
    IN  [st1 EXCEPT !.dict = [dict1 EXCEPT ![k].menus = Append(@, f_menu)],
                    !.raised = rates.raised]

\* for j in range(formats.get_size()): an exception that is not caught ends
\* the loop and the call.
RECURSIVE Scan(_, _)
Scan(st, caps) ==
    IF caps = <<>> \/ st.raised # "none" THEN st
    ELSE Scan(ScanStructure(st, Head(caps)), Tail(caps))

\* self.format_menu = None
NoMenu == [exists |-> FALSE, entries |-> <<>>]

\* QMenu.clear leaving the entries in place (mutation).
clear_keep(menu) == menu

\* self.format_menu.clear()
clear(menu) == [menu EXCEPT !.entries = <<>>]

\* TcamView.create_format_menu: the menu is cleared or made, the capability
\* list the device reports is scanned into format_dict, and the menus of
\* format_dict are added to the menu. format_dict is kept in the result: it
\* holds the submenus the call has created, added to the menu or not.
create_format_menu(menu, caps) ==
    LET fresh == IF menu.exists THEN clear(menu) ELSE [exists |-> TRUE, entries |-> <<>>]
        st == Scan([dict |-> <<>>, warnings |-> 0, raised |-> "none"], caps)
    IN  [menu |-> IF st.raised = "none" THEN [fresh EXCEPT !.entries = @ \o st.dict]
                  ELSE fresh,
         format_dict |-> st.dict,
         queried |-> TRUE,
         warnings |-> st.warnings,
         raised |-> st.raised]

\* TcamView.get_format_menu: builds the menu if there is none, returns it.
get_format_menu(menu, caps) ==
    IF ~menu.exists THEN create_format_menu(menu, caps)
    ELSE [menu |-> menu, format_dict |-> <<>>, queried |-> FALSE, warnings |-> 0,
          raised |-> "none"]

\* The capability lists a device reports after the one it reported first.
ChangedCaps ==
    {<<Jpeg>>,
     <<RawBGRx, Structure("video/x-raw", Str("GRAY8"), Fixed("640"), Fixed("480"),
                          Rates(<<"5/1", "10/1", "30/1">>))>>}

\* What a call of name `name` with result r leaves: the menu, and the record
\* of the call: whether it found a menu, whether it queried the device, the
\* capability list the latest query has seen and the format_dict of the call.
Called(name, r) ==
    /\ format_menu' = r.menu
    /\ menu_call' = [name |-> name, warnings |-> r.warnings, raised |-> r.raised,
                     existed |-> format_menu.exists, queried |-> r.queried,
                     seen |-> IF r.queried THEN formats.caps ELSE menu_call.seen,
                     format_dict |-> r.format_dict]
    /\ UNCHANGED formats
    /\ MenuOnly

\* The device is opened: from now on the source pad of its element reports
\* the capability list of the device.
Advertise ==
    \E caps \in CapsLists :
        /\ ~formats.known
        /\ formats' = [known |-> TRUE, caps |-> caps]
        /\ UNCHANGED <<format_menu, menu_call>>
        /\ MenuOnly

\* create_format_menu on the capability list the device element reports; the
\* element exists once create_pipeline has run.
CreateFormatMenu ==
    /\ pipeline # None
    /\ formats.known
    /\ Called("create_format_menu", create_format_menu(format_menu, formats.caps))

\* get_format_menu on the capability list the device element reports.
GetFormatMenu ==
    /\ pipeline # None
    /\ formats.known
    /\ Called("get_format_menu", get_format_menu(format_menu, formats.caps))

\* The device reports another capability list than before.
Readvertise ==
    \E caps \in ChangedCaps :
        /\ formats.known
        /\ caps # formats.caps
        /\ formats' = [known |-> TRUE, caps |-> caps]
        /\ UNCHANGED <<format_menu, menu_call>>
        /\ MenuOnly

InitMenu ==
    /\ format_menu = NoMenu
    /\ formats = [known |-> FALSE, caps |-> <<>>]
    /\ menu_call = [name |-> "__init__", warnings |-> 0, raised |-> "none",
                    existed |-> FALSE, queried |-> FALSE, seen |-> <<>>,
                    format_dict |-> <<>>]

NextMenu ==
    \/ CreatePipeline
    \/ Advertise
    \/ Readvertise
    \/ CreateFormatMenu
    \/ GetFormatMenu

\* -------------------------------------------------- claims: format menu
TopLevel(title) == {i \in 1..Len(format_menu.entries) : format_menu.entries[i].title = title}

\* C10 (as claimed): for every list made of a raw BGRx structure, one naming
\* BGRx and GRAY8, a JPEG one, one with a range-valued resolution and the
\* wildcard, in any order, the menu has exactly one top-level entry GRAY8,
\* exactly one image/jpeg, no other top-level entry and no submenu for the
\* range-valued resolution, and no entry named BGRx.
C10_MixedListMenu ==
    (menu_call.name = "create_format_menu" /\ formats.caps \in MixedLists)
        => /\ menu_call.raised = "none"
           /\ Cardinality(TopLevel("GRAY8")) = 1
           /\ Cardinality(TopLevel("image/jpeg")) = 1
           /\ TopLevel("BGRx") = {}
           /\ Len(format_menu.entries) = 2
           /\ \A i \in 1..Len(format_menu.entries) :
                  \A j \in 1..Len(format_menu.entries[i].menus) :
                      ~IsInfix(<<"[">>, format_menu.entries[i].menus[j].title)

\* What the claims below call a retained entry: a structure that is not the
\* wildcard, whose format is a string naming one format (JPEG by its name) and
\* whose width and height are fixed.
Retained(fmt) ==
    /\ fmt.name # "ANY"
    /\ fmt.name = "image/jpeg"
         \/ /\ fmt.format.kind = "str"
            /\ fmt.format.s \notin {"None", "{ BGRx, GRAY8 }"}
    /\ fmt.width.kind = "int"
    /\ fmt.height.kind = "int"

\* The format identifier of a retained entry: BGRx is shown as GRAY8.
FormatId(fmt) ==
    IF fmt.name = "image/jpeg" THEN "image/jpeg"
    ELSE IF fmt.format.s = "BGRx" THEN "GRAY8" ELSE fmt.format.s

Resolution(fmt) == DimText(fmt.width) \o <<"x">> \o DimText(fmt.height)

\* A frame rate field that the structured read cannot give and whose text
\* does not split into the three pieces around one brace-delimited list.
Unreadable(fmt) == fmt.framerate.kind = "list" /\ fmt.framerate.parts # 3

\* The scan has come to the n-th structure of the list.
Reached(caps, n) == \A m \in 1..(n - 1) : ~(Retained(caps[m]) /\ Unreadable(caps[m]))

\* The submenus titled with the resolution of fmt under its format identifier.
SubmenusOf(dict, fmt) ==
    {ij \in (1..Len(dict)) \X (1..MaxCaps + 5) :
        /\ dict[ij[1]].title = FormatId(fmt)
        /\ ij[2] <= Len(dict[ij[1]].menus)
        /\ dict[ij[1]].menus[ij[2]].title = Resolution(fmt)}

HasField(f, key, value) == \E n \in 1..Len(f) : f[n] = Field(key, value)

\* C11: for every retained entry that the scan of a build has come to and
\* that advertises a readable list of k frame rates, a submenu created for it
\* has exactly k actions, the n-th labelled with the n-th rate and bound to a
\* format string with framerate=<that rate>, the width and the height of the
\* entry.
C11_OneActionPerRate ==
    menu_call.queried =>
        \A n \in 1..Len(menu_call.seen) :
            LET fmt == menu_call.seen[n]
                rates == fmt.framerate.rates
            IN  (Reached(menu_call.seen, n) /\ Retained(fmt)
                     /\ fmt.framerate.kind = "list" /\ ~Unreadable(fmt))
                    => \E ij \in SubmenusOf(menu_call.format_dict, fmt) :
                           LET a == menu_call.format_dict[ij[1]].menus[ij[2]].actions
                           IN  /\ Len(a) = Len(rates)
                               /\ \A k \in 1..Len(a) :
                                      /\ a[k].label = rates[k]
                                      /\ HasField(a[k].f, "framerate", <<rates[k]>>)
                                      /\ HasField(a[k].f, "width", DimText(fmt.width))
                                      /\ HasField(a[k].f, "height", DimText(fmt.height))

\* A build from a list with an entry of three frame rates has made a submenu
\* of three actions.
C11_Witness ==
    /\ menu_call.name = "create_format_menu"
    /\ \E n \in 1..Len(menu_call.seen) :
           /\ Retained(menu_call.seen[n])
           /\ menu_call.seen[n].framerate.kind = "list"
           /\ Len(menu_call.seen[n].framerate.rates) = 3
    /\ \E i \in 1..Len(format_menu.entries) :
           \E j \in 1..Len(format_menu.entries[i].menus) :
               Len(format_menu.entries[i].menus[j].actions) = 3

\* The keys of the fields of a format string, in order.
Keys(f) == [n \in 1..Len(f) |-> f[n].key]

\* C12 (as claimed): every format string bound to an action is a name
\* followed by format= (raw entries only), width=, height= and framerate=,
\* and none of its fields is empty.
C12_FormatStringGrammar ==
    \A i \in 1..Len(menu_call.format_dict) :
        \A j \in 1..Len(menu_call.format_dict[i].menus) :
            \A k \in 1..Len(menu_call.format_dict[i].menus[j].actions) :
                LET f == menu_call.format_dict[i].menus[j].actions[k].f
                IN  /\ Keys(f) = IF menu_call.format_dict[i].title = "image/jpeg"
                                 THEN <<"", "width", "height", "framerate">>
                                 ELSE <<"", "format", "width", "height", "framerate">>
                    /\ \A n \in 1..Len(f) : f[n].value # <<>>

\* C14 (as claimed): no build raises, and every retained entry with a
\* readable frame rate field has its submenu in the menu, whatever else the
\* capability list holds.
C14_ScanSkipsUninterpretable ==
    menu_call.queried =>
        /\ menu_call.raised = "none"
        /\ \A n \in 1..Len(menu_call.seen) :
               (Retained(menu_call.seen[n]) /\ ~Unreadable(menu_call.seen[n]))
                   => SubmenusOf(format_menu.entries, menu_call.seen[n]) # {}

\* C15: a menu that exists holds exactly the entries of one build from the
\* capability list the latest query of the device has seen, and
\* get_format_menu does not query the device when it finds a menu.
C15_MenuIsLatestBuild ==
    /\ format_menu.exists
           => format_menu = create_format_menu(NoMenu, menu_call.seen).menu
    /\ (menu_call.name = "get_format_menu" /\ menu_call.existed) => ~menu_call.queried
    /\ (menu_call.name = "get_format_menu" /\ ~menu_call.existed) => menu_call.queried
    /\ menu_call.name = "create_format_menu" => menu_call.queried

\* get_format_menu has returned a menu with entries, built from another
\* capability list than the device reports now.
C15_Witness ==
    /\ menu_call.name = "get_format_menu"
    /\ menu_call.existed
    /\ format_menu.entries # <<>>
    /\ menu_call.seen # formats.caps
    /\ format_menu # create_format_menu(NoMenu, formats.caps).menu

\* C19 (as claimed): in the menu of a build that has completed, each
\* top-level menu has exactly one submenu for the resolution of each retained
\* entry of its format.
C19_OneSubmenuPerResolution ==
    (menu_call.queried /\ menu_call.raised = "none") =>
        \A n \in 1..Len(menu_call.seen) :
            Retained(menu_call.seen[n])
                => Cardinality(SubmenusOf(format_menu.entries, menu_call.seen[n])) = 1

\* ============================================ TcamView: notifications
\* The sink announces samples on a streaming thread and the bus hands over
\* state-changed messages from the main loop: both are emitted at one moment
\* and delivered to new_buffer and on_state_changed at a later one, and the
\* widget may have been called in between.

\* Most notifications emitted and not yet delivered.
MaxInflight == 2

\* The elements of the pipeline that post state-changed messages.
StateSources == {"bin", "sink", "pipeline0"}

Sample == [kind |-> "new-sample", src |-> "sink", new |-> ""]
StateChanged(src, new) == [kind |-> "state-changed", src |-> src, new |-> new]

\* on_state_changed taking the state of whatever element reports one (mutation).
on_state_changed_unfiltered(s, src, new, caps) ==
    IF s.pipeline = None THEN Raise(s, "AttributeError")
    ELSE LET s1 == [s EXCEPT !.state = new]
         IN  IF new = "PLAYING" /\ caps = <<>> THEN log(s1) ELSE s1

\* TcamView.on_state_changed: caps is what the source pad of bin reports when
\* the handler asks; with no structure in it the handler logs an error.
on_state_changed(s, src, new, caps) ==
    \* self.pipeline.get_by_name on None
    IF s.pipeline = None THEN Raise(s, "AttributeError")
    ELSE IF src # "bin" THEN s
    ELSE LET s1 == [s EXCEPT !.state = new]
         IN  IF new = "PLAYING" /\ caps = <<>> THEN log(s1) ELSE s1

\* TcamView.new_buffer, run in one piece: pull-sample gives a sample while the
\* sink is started (PAUSED, PLAYING) and None otherwise, and buf.get_caps() on
\* None raises; surface is the one the handler emits new_pixmap on.
new_buffer(s, surface) ==
    IF s.pipeline = None THEN Raise(s, "AttributeError")
    ELSE IF s.gst_state \notin {"PAUSED", "PLAYING"} THEN Raise(s, "AttributeError")
    ELSE [s EXCEPT !.handed = surface]

\* The sink of the playing pipeline announces a sample (no call of the widget).
SampleAvailable ==
    /\ pipeline # None
    /\ gst_state = "PLAYING"
    /\ Sample \notin inflight
    /\ Cardinality(inflight) < MaxInflight
    /\ Becomes([Cur EXCEPT !.inflight = @ \cup {Sample}], Op("sample_available", "", ""))

\* An element posts the state it has reached on the bus (no call of the widget).
StateChangedPosted ==
    \E src \in StateSources :
        /\ pipeline # None
        /\ StateChanged(src, gst_state) \notin inflight
        /\ Cardinality(inflight) < MaxInflight
        /\ Becomes([Cur EXCEPT !.inflight = @ \cup {StateChanged(src, gst_state)}],
                   Op("state_changed_posted", "", ""))

\* The announcement of a sample is delivered.
NewBuffer ==
    /\ Sample \in inflight
    /\ Becomes(new_buffer([Cur EXCEPT !.inflight = @ \ {Sample}],
                          IF fullscreen_container # None THEN fullscreen_container
                          ELSE Container),
               Op("new_buffer", "", ""))

\* A state-changed message is delivered.
OnStateChanged ==
    \E n \in inflight, caps \in ChangedCaps \cup {<<>>} :
        /\ n.kind = "state-changed"
        /\ Becomes(on_state_changed([Cur EXCEPT !.inflight = @ \ {n}], n.src, n.new, caps),
                   Op("on_state_changed", n.src, n.new))

NextNotify ==
    \/ Play
    \/ Pause
    \/ Stop
    \/ StateChangeDone
    \/ SampleAvailable
    \/ StateChangedPosted
    \/ NewBuffer
    \/ OnStateChanged

\* ------------------------------------------------ claims: notifications
\* C18: a state-changed message of another element than bin leaves the
\* tracked state and every other field of the widget as they were; a message
\* of bin sets the tracked state to the new state of the message, and only it.
C18_OnlyBinUpdatesState ==
    IsCall("on_state_changed")
        => /\ raised = "none"
           /\ PipelineUntouched
           /\ requests = <<>> /\ invoked = <<>> /\ handed = None
           /\ state = IF callee.a = "bin" THEN callee.b ELSE pre.state

\* C18 witness: the message of another element, reporting another state than
\* the tracked one, has been delivered after the tracked state was set.
C18_Witness ==
    /\ IsCall("on_state_changed")
    /\ callee.a # "bin"
    /\ state # Unset
    /\ callee.b # state

\* C20 (as claimed): a notification delivered while the pipeline is stopped
\* is a no-op: the handler raises nothing, hands no frame to a surface and
\* requests no state.
C20_LateNotificationNoOp ==
    ((IsCall("new_buffer") \/ IsCall("on_state_changed"))
         /\ pre.gst_state = "NULL" /\ pre.gst_pending = VoidPending)
        => /\ raised = "none"
           /\ handed = None
           /\ requests = <<>>

\* ------------------------------------------------------- specifications
Init == InitPipe /\ InitZoom /\ InitView /\ InitMenu /\ InitKeys /\ InitPointer

SpecPipe == Init /\ [][NextPipe]_vars

SpecZoom == Init /\ [][NextZoom]_vars

SpecView == Init /\ [][NextView]_vars

SpecMenu == Init /\ [][NextMenu]_vars

SpecNotify == Init /\ [][NextNotify]_vars

SpecKeys == Init /\ [][NextKeys]_vars

SpecPointer == Init /\ [][NextPointer]_vars

====
